---- MODULE Spec2Model ----
(***************************************************************************)
(* Layout placement engines of src/app/page.tsx (three revisions of the   *)
(* page concatenated in one file):                                        *)
(*   "pct"   generateNonOverlappingLayout     lines 41-74   (percent retry)*)
(*   "relax" generateNonOverlappingLayoutPx   lines 681-770 (relaxation)   *)
(*   "px"    generateNonOverlappingLayoutPx   lines 1326-1374 (pixel retry)*)
(* and the page component that calls them on every observed viewport.     *)
(*                                                                         *)
(* Numbers.  The code computes in IEEE doubles.  Here every length, angle  *)
(* and percentage is a fixed-point integer counting 1/Unit of the source   *)
(* quantity (Px(n) is n pixels), and every dimensionless fraction in [0,1] *)
(* (Math.random(), visibleFrac, the move shares) is an integer per mille.  *)
(* Comparisons of distances are made exactly, on squares.                  *)
(***************************************************************************)
EXTENDS Integers, Sequences, FiniteSets, TLC

\* Resolution of the fixed-point numbers: units per pixel (or per percent, per degree).
Unit == 16

\* Values Math.random() is sampled at, per mille (Math.random() is in [0, 1)).
RandVals == {450, 800}

\* Values randNorm() is sampled at, per mille (a standard normal deviate).
NormVals == {-1000, 1000}

Px(n) == n * Unit

\* a / b rounded to the nearest integer, halves up (b > 0), as Math.round does.
RDiv(a, b) == (2 * a + b) \div (2 * b)

\* x * (pm / 1000)
Mil(x, pm) == RDiv(x * pm, 1000)

Min2(a, b) == IF a <= b THEN a ELSE b
Max2(a, b) == IF a >= b THEN a ELSE b

\* Math.min(...xs), Math.max(...xs) of a non-empty set
MinOf(S) == CHOOSE x \in S : \A y \in S : x <= y
MaxOf(S) == CHOOSE x \in S : \A y \in S : x >= y

\* An optional value is {} (undefined) or {v};  o ?? d
Some(v) == {v}
OrElse(o, d) == IF o = {} THEN d ELSE CHOOSE x \in o : TRUE

\* Math.hypot(dx, dy) >= r, decided on squares
HypotGe(dx, dy, r) == r <= 0 \/ dx * dx + dy * dy >= r * r

RECURSIVE SqrtIter(_, _, _)
SqrtIter(n, lo, hi) ==
  IF lo >= hi THEN lo
  ELSE LET mid == (lo + hi + 1) \div 2
       IN IF mid * mid <= n THEN SqrtIter(n, mid, hi) ELSE SqrtIter(n, lo, mid - 1)

\* Math.hypot(dx, dy) to the nearest unit
Hypot(dx, dy) ==
  LET n == dx * dx + dy * dy
      f == SqrtIter(n, 0, 40000)
  IN IF n - f * f > f THEN f + 1 ELSE f

\* rand(min, max) = Math.random() * (max - min) + min, with Math.random() = u / 1000
rand(min, max, u) == Mil(max - min, u) + min

(***************************************************************************)
(* Array.prototype.sort.  The three engines sort a copy of specs with a    *)
(* comparator.  For arrays shorter than 64 elements V8 sorts by finding    *)
(* the leading run (reversing it when it is descending) and inserting the  *)
(* remaining elements by binary insertion; Sort follows it call by call.   *)
(***************************************************************************)
\* comparePct with the operands exchanged: a.radius - b.radius
comparePctAscending(a, b) == a.radius - b.radius

\* (a, b) => b.radius - a.radius                         (percent engine)
comparePct(a, b) == b.radius - a.radius

\* (a, b) => b.radiusPx - a.radiusPx                     (pixel retry engine)
comparePx(a, b) == b.radiusPx - a.radiusPx

\* bc - ac ? -1 : 1   (a conditional on the number bc - ac)
preferFirst(ac, bc) == IF bc - ac # 0 THEN -1 ELSE 1

\* the comparator of the relaxation engine
compareRelax(a, b) ==
  LET ac == IF a.preferCenter THEN 1 ELSE 0
      bc == IF b.preferCenter THEN 1 ELSE 0
  IN IF ac # bc THEN preferFirst(ac, bc) ELSE b.radiusPx - a.radiusPx

Compare(e, a, b) ==
  CASE e = "pct" -> comparePct(a, b)
    [] e = "px" -> comparePx(a, b)
    [] OTHER -> compareRelax(a, b)

RECURSIVE RunLength(_, _, _, _)
RunLength(e, s, idx, desc) ==
  IF idx > Len(s) THEN idx - 1
  ELSE LET order == Compare(e, s[idx], s[idx - 1])
       IN IF (desc /\ order >= 0) \/ (~desc /\ order < 0)
          THEN idx - 1
          ELSE RunLength(e, s, idx + 1, desc)

ReverseRange(s, n) == [x \in 1..Len(s) |-> IF x <= n THEN s[n + 1 - x] ELSE s[x]]

RECURSIVE BinarySearch(_, _, _, _, _)
BinarySearch(e, s, pivot, left, right) ==
  IF left >= right THEN left
  ELSE LET mid == left + ((right - left) \div 2)
       IN IF Compare(e, pivot, s[mid]) < 0
          THEN BinarySearch(e, s, pivot, left, mid)
          ELSE BinarySearch(e, s, pivot, mid + 1, right)

RECURSIVE BinaryInsertionSort(_, _, _)
BinaryInsertionSort(e, s, start) ==
  IF start > Len(s) THEN s
  ELSE LET pivot == s[start]
           left == BinarySearch(e, s, pivot, 1, start)
           t == [x \in 1..Len(s) |->
                   IF x < left \/ x > start THEN s[x]
                   ELSE IF x = left THEN pivot ELSE s[x - 1]]
       IN BinaryInsertionSort(e, t, start + 1)

\* [...specs].sort(comparator of engine e)
Sort(e, s) ==
  IF Len(s) < 2 THEN s
  ELSE LET desc == Compare(e, s[2], s[1]) < 0
           run == RunLength(e, s, 3, desc)
           t == IF desc THEN ReverseRange(s, run) ELSE s
       IN BinaryInsertionSort(e, t, run + 1)

(***************************************************************************)
(* State.  One engine invocation at a time (the page is single-threaded):  *)
(* args is the call's arguments, ordered and placed are its locals, pc its *)
(* position; a loop's body is one step, because each body draws fresh      *)
(* random numbers.                                                         *)
(***************************************************************************)
VARIABLES
  args,      \* [engine, specs, vw, vh, opts] of the running invocation
  ordered,   \* const ordered = [...specs].sort(...)
  placed,    \* const placed: Placed[] / PlacedPx[]
  pc,        \* "idle" | "seed" | "try" | "pairs" | "clamp" | "final" | "done"
  k,         \* index (1-based) of the item of ordered being placed
  tries,     \* loop bodies entered by while (tries++ < N) for the current item
  iter,      \* relaxLayout: let iter
  pi,        \* relaxLayout: let i (1-based)
  pj,        \* relaxLayout: let j (1-based)
  moved,     \* relaxLayout: let moved
  fellBack,  \* history: ids of the items pushed by the fallback branch
  stopped,   \* history: how relaxLayout's loop ended: "no", "stable" or "budget"
  page,      \* the mounted page revision: "px", "relax", or "none" (an engine called directly)
  viewport,  \* useState<{ w, h } | null>(null): {} is null
  memo,      \* const placed = useMemo(..., [viewport]), the value with its deps: {} is null
  focus,     \* useState<Focus>: [type, id, url]
  show3D,    \* useState(false) of the revisions with the 3D viewer
  timer,     \* the setTimeout of the last run of the effect on [focus]: "none" or "armed"
  effect     \* the effect on [focus]: "pending" from a commit that changed focus, else "done"

vars == <<args, ordered, placed, pc, k, tries, iter, pi, pj, moved, fellBack, stopped,
          page, viewport, memo, focus, show3D, timer, effect>>

\* while (tries++ < 500)
MaxTriesPct == 500
\* while (tries++ < 900)
MaxTriesPx == 900
\* relaxLayout(..., smallViewport ? 900 : 700, ...)
MaxItersSmall == 900
MaxItersLarge == 700
\* Math.min(vw, vh) < 700
SmallEdge == 700

NoArgs == [engine |-> "none"]

engine == args.engine

(***************************************************************************)
(* Percent retry engine: generateNonOverlappingLayout, lines 41-74.        *)
(***************************************************************************)
marginX == OrElse(args.opts.marginX, Px(6))
marginY == OrElse(args.opts.marginY, Px(10))
padding == OrElse(args.opts.padding, Px(2))

\* okPct with placed.some in the place of placed.every
okPctSome(s, left, top) ==
  \E n \in 1..Len(placed) :
    HypotGe(placed[n].left - left, placed[n].top - top,
            placed[n].radius + s.radius + padding)

\* okPct testing the distance to the sampled items only
okPctSkipsFallback(s, left, top) ==
  \A n \in 1..Len(placed) :
    \/ placed[n].id \in fellBack
    \/ HypotGe(placed[n].left - left, placed[n].top - top,
               placed[n].radius + s.radius + padding)

\* placed.every(p => Math.hypot(p.left - left, p.top - top) >= p.radius + s.radius + padding)
okPct(s, left, top) ==
  \A n \in 1..Len(placed) :
    HypotGe(placed[n].left - left, placed[n].top - top,
            placed[n].radius + s.radius + padding)

\* where the fallback branch puts an item: rand(marginX, 100 - marginX), rand(marginY, 100 - marginY)
fallbackLeft(s, u) == rand(marginX, Px(100) - marginX, u)
fallbackTop(s, u) == rand(marginY, Px(100) - marginY, u)

\* leaving the body of for (const s of ordered): next item, or return placed
NextItem ==
  /\ k' = k + 1
  /\ tries' = 0
  /\ pc' = IF k + 1 > Len(ordered) THEN "done" ELSE pc

RetryFrame == UNCHANGED <<args, ordered, iter, pi, pj, moved, stopped, page, viewport, memo, focus, show3D, timer, effect>>

\* one body of while (tries++ < 500), lines 53-66
TryPct ==
  /\ pc = "try" /\ engine = "pct"
  /\ tries < MaxTriesPct
  /\ \E ul \in RandVals, ut \in RandVals, ur \in RandVals :
       LET s == ordered[k]
           left == rand(marginX + s.radius, Px(100) - marginX - s.radius, ul)
           top == rand(marginY + s.radius, Px(100) - marginY - s.radius, ut)
           rot == rand(s.rotRange[1], s.rotRange[2], ur)
       IN IF okPct(s, left, top)
          THEN /\ placed' = Append(placed,
                              [id |-> s.id, left |-> left, top |-> top, rot |-> rot,
                               radius |-> s.radius])
               /\ NextItem
               /\ UNCHANGED fellBack
          ELSE /\ tries' = tries + 1
               /\ UNCHANGED <<placed, k, pc, fellBack>>
  /\ RetryFrame

\* FallbackPct without its push: an item that found no place is dropped
FallbackPctDropped ==
  /\ pc = "try" /\ engine = "pct"
  /\ tries >= MaxTriesPct
  /\ UNCHANGED <<placed, fellBack>>
  /\ NextItem
  /\ RetryFrame

\* the loop condition fails; if (!placed.find(p => p.id === s.id)) push the fallback, lines 67-70
FallbackPct ==
  /\ pc = "try" /\ engine = "pct"
  /\ tries >= MaxTriesPct
  /\ LET s == ordered[k]
     IN IF \E n \in 1..Len(placed) : placed[n].id = s.id
        THEN UNCHANGED <<placed, fellBack>>
        ELSE \E ul \in RandVals, ut \in RandVals :
               /\ placed' = Append(placed,
                              [id |-> s.id, left |-> fallbackLeft(s, ul),
                               top |-> fallbackTop(s, ut), rot |-> 0, radius |-> s.radius])
               /\ fellBack' = fellBack \cup {s.id}
  /\ NextItem
  /\ RetryFrame

(***************************************************************************)
(* Pixel retry engine: generateNonOverlappingLayoutPx, lines 1326-1374.    *)
(***************************************************************************)
vw == args.vw
vh == args.vh

\* (pct / 100) * extent
PctOf(pct, extent) == RDiv(pct * extent, Px(100))

retryMarginXPx == PctOf(OrElse(args.opts.marginXPct, Px(6)), vw)
retryMarginYPx == PctOf(OrElse(args.opts.marginYPct, Px(8)), vh)
retryPaddingPx == OrElse(args.opts.paddingPx, Px(14))

\* const minX, maxX, minY, maxY of the item being placed, lines 1343-1346
retryBounds(R) ==
  [minX |-> retryMarginXPx + R, maxX |-> vw - retryMarginXPx - R,
   minY |-> retryMarginYPx + R, maxY |-> vh - retryMarginYPx - R]

\* okPx with the comparison turned round
okPxTurned(R, cx, cy) ==
  \A n \in 1..Len(placed) :
    ~HypotGe(placed[n].cx - cx, placed[n].cy - cy, placed[n].radiusPx + R + retryPaddingPx)

\* placed.every(p => Math.hypot(p.cx - cx, p.cy - cy) >= p.radiusPx + R + paddingPx)
okPx(R, cx, cy) ==
  \A n \in 1..Len(placed) :
    HypotGe(placed[n].cx - cx, placed[n].cy - cy, placed[n].radiusPx + R + retryPaddingPx)

\* Math.max(min, Math.min(max, x)): the lower bound wins when min > max
ClampLo(x, min, max) == Max2(min, Min2(max, x))
\* Math.min(max, Math.max(min, x)): the upper bound wins when min > max
ClampHi(x, min, max) == Min2(max, Max2(min, x))

\* widthOf without the fixed width: R * 2 always
widthOfDiameter(s) == s.radiusPx * 2

\* s.fixedWidthPx ?? (R * 2)
widthOf(s) == OrElse(s.fixedWidthPx, s.radiusPx * 2)

\* fallbackPx with the rotation left at the top of the item's range
fallbackPxTilted(s) ==
  LET b == retryBounds(s.radiusPx)
  IN [id |-> s.id,
      cx |-> ClampLo(RDiv(vw, 2), b.minX, b.maxX),
      cy |-> ClampLo(RDiv(vh, 2), b.minY, b.maxY),
      rot |-> s.rotRange[2], radiusPx |-> s.radiusPx, widthPx |-> widthOf(s)]

\* the fallback item, lines 1364-1369
fallbackPx(s) ==
  LET b == retryBounds(s.radiusPx)
  IN [id |-> s.id,
      cx |-> ClampLo(RDiv(vw, 2), b.minX, b.maxX),
      cy |-> ClampLo(RDiv(vh, 2), b.minY, b.maxY),
      rot |-> 0, radiusPx |-> s.radiusPx, widthPx |-> widthOf(s)]

\* one body of while (tries++ < 900), lines 1348-1363
TryPx ==
  /\ pc = "try" /\ engine = "px"
  /\ tries < MaxTriesPx
  /\ \E ux \in RandVals, uy \in RandVals, ur \in RandVals :
       LET s == ordered[k]
           R == s.radiusPx
           b == retryBounds(R)
           cx == rand(b.minX, b.maxX, ux)
           cy == rand(b.minY, b.maxY, uy)
           rot == rand(s.rotRange[1], s.rotRange[2], ur)
       IN IF okPx(R, cx, cy)
          THEN /\ placed' = Append(placed,
                              [id |-> s.id, cx |-> cx, cy |-> cy, rot |-> rot,
                               radiusPx |-> R, widthPx |-> widthOf(s)])
               /\ NextItem
               /\ UNCHANGED fellBack
          ELSE /\ tries' = tries + 1
               /\ UNCHANGED <<placed, k, pc, fellBack>>
  /\ RetryFrame

\* the loop ends with placedOne still null: the fallback, then placed.push(placedOne)
FallbackPx ==
  /\ pc = "try" /\ engine = "px"
  /\ tries >= MaxTriesPx
  /\ placed' = Append(placed, fallbackPx(ordered[k]))
  /\ fellBack' = fellBack \cup {ordered[k].id}
  /\ NextItem
  /\ RetryFrame

(***************************************************************************)
(* Relaxation engine: relaxLayout, lines 621-678, and                      *)
(* generateNonOverlappingLayoutPx, lines 681-770.                          *)
(***************************************************************************)
\* the locals of generateNonOverlappingLayoutPx for the arguments a, lines 687-699
smallViewportAt(a) == Min2(a.vw, a.vh) < Px(SmallEdge)
\* the two visible fractions exchanged
defaultVisibleFracSwapped(a) == IF smallViewportAt(a) THEN 600 ELSE 850
defaultVisibleFracAt(a) == IF smallViewportAt(a) THEN 850 ELSE 600

baseMarginXPxAt(a) == PctOf(OrElse(a.opts.marginXPct, Px(6)), a.vw)
baseMarginYPxAt(a) == PctOf(OrElse(a.opts.marginYPct, Px(8)), a.vh)
marginXPxAt(a) == IF smallViewportAt(a) THEN 0 ELSE Max2(baseMarginXPxAt(a), Px(12))
marginYPxAt(a) == IF smallViewportAt(a) THEN 0 ELSE Max2(baseMarginYPxAt(a), Px(12))

\* calcBounds with the item's margin override applied on small viewports too
calcBoundsOverrideAlways(a, R, s) ==
  LET mx == IF s.boundsOverride.marginXPct # {}
            THEN PctOf(OrElse(s.boundsOverride.marginXPct, 0), a.vw)
            ELSE marginXPxAt(a)
      my == IF s.boundsOverride.marginYPct # {}
            THEN PctOf(OrElse(s.boundsOverride.marginYPct, 0), a.vh)
            ELSE marginYPxAt(a)
      vf == OrElse(s.boundsOverride.visibleFrac, defaultVisibleFracAt(a))
  IN [minX |-> mx + Mil(R, vf), maxX |-> a.vw - mx - Mil(R, vf),
      minY |-> my + Mil(R, vf), maxY |-> a.vh - my - Mil(R, vf), vf |-> vf]

\* const calcBounds = (R, s) => ..., lines 710-721, for the arguments a
calcBoundsAt(a, R, s) ==
  LET mx == IF smallViewportAt(a) THEN 0
            ELSE IF s.boundsOverride.marginXPct # {}
                 THEN PctOf(OrElse(s.boundsOverride.marginXPct, 0), a.vw)
                 ELSE marginXPxAt(a)
      my == IF smallViewportAt(a) THEN 0
            ELSE IF s.boundsOverride.marginYPct # {}
                 THEN PctOf(OrElse(s.boundsOverride.marginYPct, 0), a.vh)
                 ELSE marginYPxAt(a)
      vf == OrElse(s.boundsOverride.visibleFrac, defaultVisibleFracAt(a))
  IN [minX |-> mx + Mil(R, vf), maxX |-> a.vw - mx - Mil(R, vf),
      minY |-> my + Mil(R, vf), maxY |-> a.vh - my - Mil(R, vf), vf |-> vf]

\* the same locals in the running invocation
smallViewport == smallViewportAt(args)
defaultVisibleFrac == defaultVisibleFracAt(args)
marginXPx == marginXPxAt(args)
marginYPx == marginYPxAt(args)
calcBounds(R, s) == calcBoundsAt(args, R, s)

requestedPad == OrElse(args.opts.paddingPx, Px(16))
\* padPx with the two floors exchanged
padPxSwapped == Max2(requestedPad, IF smallViewport THEN Px(40) ELSE Px(48))

padPx == Max2(requestedPad, IF smallViewport THEN Px(48) ELSE Px(40))

maxIters == IF smallViewport THEN MaxItersSmall ELSE MaxItersLarge

\* preferMap[id]: for (const s of specs) preferMap[s.id] = !!s.preferCenter (the last one wins)
preferMap(id) ==
  LET S == {n \in 1..Len(args.specs) : args.specs[n].id = id}
  IN S # {} /\ args.specs[MaxOf(S)].preferCenter

\* globalBounds taken from the first item's bounds alone
globalBoundsOfFirst ==
  LET b == calcBounds(ordered[1].radiusPx, ordered[1])
  IN [minX |-> b.minX, maxX |-> b.maxX, minY |-> b.minY, maxY |-> b.maxY]

\* const globalBounds, lines 750-756 (of a non-empty ordered)
globalBounds ==
  LET perBounds == [n \in 1..Len(ordered) |-> calcBounds(ordered[n].radiusPx, ordered[n])]
      N == 1..Len(ordered)
  IN [minX |-> MinOf({perBounds[n].minX : n \in N}),
      maxX |-> MaxOf({perBounds[n].maxX : n \in N}),
      minY |-> MinOf({perBounds[n].minY : n \in N}),
      maxY |-> MaxOf({perBounds[n].maxY : n \in N})]

RelaxFrame == UNCHANGED <<args, ordered, tries, fellBack, page, viewport, memo, focus, show3D, timer, effect>>

\* entering relaxLayout's for (iter ...) body: the pair loops, or the clamp when there is no pair
EnterIter ==
  /\ moved' = FALSE
  /\ pi' = 1
  /\ pj' = 2
  /\ pc' = IF Len(ordered) >= 2 THEN "pairs" ELSE "clamp"

\* SeedItem with Math.random() < 0.8 alone deciding the Gaussian draw
SeedItemAllGauss ==
  /\ pc = "seed" /\ engine = "relax"
  /\ \E coin \in RandVals, u1 \in RandVals, u2 \in RandVals, ur \in RandVals,
        z1 \in NormVals, z2 \in NormVals :
       LET s == ordered[k]
           R == s.radiusPx
           b == calcBounds(R, s)
           gauss == coin < 800
           sigmaX == Mil(b.maxX - b.minX, 200)
           sigmaY == Mil(b.maxY - b.minY, 200)
           cx == IF gauss THEN ClampHi(RDiv(vw, 2) + Mil(sigmaX, z1), b.minX, b.maxX)
                 ELSE ClampHi(rand(b.minX, b.maxX, u1), b.minX, b.maxX)
           cy == IF gauss THEN ClampHi(RDiv(vh, 2) + Mil(sigmaY, z2), b.minY, b.maxY)
                 ELSE ClampHi(rand(b.minY, b.maxY, u2), b.minY, b.maxY)
           rot == rand(s.rotRange[1], s.rotRange[2], ur)
       IN placed' = Append(placed,
                      [id |-> s.id, cx |-> cx, cy |-> cy, rot |-> rot,
                       radiusPx |-> R, widthPx |-> widthOf(s)])
  /\ k' = k + 1
  /\ IF k + 1 > Len(ordered)
     THEN /\ iter' = 0
          /\ EnterIter
     ELSE UNCHANGED <<pc, iter, pi, pj, moved>>
  /\ UNCHANGED stopped
  /\ RelaxFrame

\* one call of the callback of ordered.map, lines 724-743
SeedItem ==
  /\ pc = "seed" /\ engine = "relax"
  /\ \E coin \in RandVals, u1 \in RandVals, u2 \in RandVals, ur \in RandVals,
        z1 \in NormVals, z2 \in NormVals :
       LET s == ordered[k]
           R == s.radiusPx
           b == calcBounds(R, s)
           gauss == s.preferCenter /\ coin < 800
           sigmaX == Mil(b.maxX - b.minX, 200)
           sigmaY == Mil(b.maxY - b.minY, 200)
           cx == IF gauss THEN ClampHi(RDiv(vw, 2) + Mil(sigmaX, z1), b.minX, b.maxX)
                 ELSE ClampHi(rand(b.minX, b.maxX, u1), b.minX, b.maxX)
           cy == IF gauss THEN ClampHi(RDiv(vh, 2) + Mil(sigmaY, z2), b.minY, b.maxY)
                 ELSE ClampHi(rand(b.minY, b.maxY, u2), b.minY, b.maxY)
           rot == rand(s.rotRange[1], s.rotRange[2], ur)
       IN placed' = Append(placed,
                      [id |-> s.id, cx |-> cx, cy |-> cy, rot |-> rot,
                       radiusPx |-> R, widthPx |-> widthOf(s)])
  /\ k' = k + 1
  /\ IF k + 1 > Len(ordered)
     THEN /\ iter' = 0
          /\ EnterIter
     ELSE UNCHANGED <<pc, iter, pi, pj, moved>>
  /\ UNCHANGED stopped
  /\ RelaxFrame

\* (Math.random() - 0.5) * jitter, jitter = 0.25
jitterOf(u) == RDiv((u - 500) * Unit, 4000)

\* moveAOf with the two unequal shares exchanged
moveAOfSwapped(aFav, bFav) ==
  IF aFav /\ ~bFav THEN 650 ELSE IF ~aFav /\ bFav THEN 350 ELSE 500

\* moveA, per mille, lines 647-651
moveAOf(aFav, bFav) ==
  IF aFav /\ ~bFav THEN 350 ELSE IF ~aFav /\ bFav THEN 650 ELSE 500

\* pushAlong taking the x axis for the direction of two coincident centers
pushAlongSomeWay(d, dist, push, share) ==
  IF dist = 0 THEN Mil(push, share) ELSE Mil(RDiv(d * push, dist), share)

\* ux * push * share, with ux = dx / dist and dist = Math.hypot(dx, dy) || 1e-6
pushAlong(d, dist, push, share) ==
  IF dist = 0 THEN 0 ELSE Mil(RDiv(d * push, dist), share)

\* RelaxPair without moved = true
RelaxPairUnmarked ==
  /\ pc = "pairs" /\ engine = "relax"
  /\ LET a == placed[pi]
         b == placed[pj]
         dx == b.cx - a.cx
         dy == b.cy - a.cy
         minDist == a.radiusPx + b.radiusPx + padPx
     IN IF ~HypotGe(dx, dy, minDist)
        THEN \E j1 \in RandVals, j2 \in RandVals, j3 \in RandVals, j4 \in RandVals :
               LET dist == Hypot(dx, dy)
                   overlap == minDist - dist
                   moveA == moveAOf(preferMap(a.id), preferMap(b.id))
                   push == overlap + RDiv(Unit, 4)
                   a2 == [a EXCEPT !.cx = a.cx - pushAlong(dx, dist, push, moveA) + jitterOf(j1),
                                   !.cy = a.cy - pushAlong(dy, dist, push, moveA) + jitterOf(j2)]
                   b2 == [b EXCEPT !.cx = b.cx + pushAlong(dx, dist, push, 1000 - moveA) + jitterOf(j3),
                                   !.cy = b.cy + pushAlong(dy, dist, push, 1000 - moveA) + jitterOf(j4)]
               IN /\ placed' = [placed EXCEPT ![pi] = a2, ![pj] = b2]
                  /\ moved' = moved
        ELSE UNCHANGED <<placed, moved>>
  /\ IF pj < Len(placed)
     THEN /\ pj' = pj + 1
          /\ UNCHANGED <<pi, pc>>
     ELSE IF pi + 1 < Len(placed)
          THEN /\ pi' = pi + 1
               /\ pj' = pi + 2
               /\ UNCHANGED pc
          ELSE /\ pc' = "clamp"
               /\ UNCHANGED <<pi, pj>>
  /\ UNCHANGED <<k, iter, stopped>>
  /\ RelaxFrame

\* the body of for (let j ...), lines 634-666, for the pair (pi, pj)
RelaxPair ==
  /\ pc = "pairs" /\ engine = "relax"
  /\ LET a == placed[pi]
         b == placed[pj]
         dx == b.cx - a.cx
         dy == b.cy - a.cy
         minDist == a.radiusPx + b.radiusPx + padPx
     IN IF ~HypotGe(dx, dy, minDist)
        THEN \E j1 \in RandVals, j2 \in RandVals, j3 \in RandVals, j4 \in RandVals :
               LET dist == Hypot(dx, dy)
                   overlap == minDist - dist
                   moveA == moveAOf(preferMap(a.id), preferMap(b.id))
                   push == overlap + RDiv(Unit, 4)
                   a2 == [a EXCEPT !.cx = a.cx - pushAlong(dx, dist, push, moveA) + jitterOf(j1),
                                   !.cy = a.cy - pushAlong(dy, dist, push, moveA) + jitterOf(j2)]
                   b2 == [b EXCEPT !.cx = b.cx + pushAlong(dx, dist, push, 1000 - moveA) + jitterOf(j3),
                                   !.cy = b.cy + pushAlong(dy, dist, push, 1000 - moveA) + jitterOf(j4)]
               IN /\ placed' = [placed EXCEPT ![pi] = a2, ![pj] = b2]
                  /\ moved' = TRUE
        ELSE UNCHANGED <<placed, moved>>
  /\ IF pj < Len(placed)
     THEN /\ pj' = pj + 1
          /\ UNCHANGED <<pi, pc>>
     ELSE IF pi + 1 < Len(placed)
          THEN /\ pi' = pi + 1
               /\ pj' = pi + 2
               /\ UNCHANGED pc
          ELSE /\ pc' = "clamp"
               /\ UNCHANGED <<pi, pj>>
  /\ UNCHANGED <<k, iter, stopped>>
  /\ RelaxFrame

\* EndIter without the iter++ of the for statement
EndIterUncounted ==
  /\ pc = "clamp" /\ engine = "relax"
  /\ placed' = [n \in 1..Len(placed) |->
                  [placed[n] EXCEPT
                     !.cx = ClampLo(placed[n].cx, globalBounds.minX, globalBounds.maxX),
                     !.cy = ClampLo(placed[n].cy, globalBounds.minY, globalBounds.maxY)]]
  /\ IF ~moved
     THEN /\ stopped' = "stable"
          /\ pc' = "final"
          /\ UNCHANGED <<iter, pi, pj, moved>>
     ELSE /\ iter' = iter
          /\ IF iter + 1 < maxIters
             THEN EnterIter /\ UNCHANGED stopped
             ELSE /\ stopped' = "budget"
                  /\ pc' = "final"
                  /\ UNCHANGED <<pi, pj, moved>>
  /\ UNCHANGED k
  /\ RelaxFrame

\* EndIter without if (!moved) break
EndIterNoBreak ==
  /\ pc = "clamp" /\ engine = "relax"
  /\ placed' = [n \in 1..Len(placed) |->
                  [placed[n] EXCEPT
                     !.cx = ClampLo(placed[n].cx, globalBounds.minX, globalBounds.maxX),
                     !.cy = ClampLo(placed[n].cy, globalBounds.minY, globalBounds.maxY)]]
  /\ iter' = iter + 1
  /\ IF iter + 1 < maxIters
     THEN EnterIter /\ UNCHANGED stopped
     ELSE /\ stopped' = "budget"
          /\ pc' = "final"
          /\ UNCHANGED <<pi, pj, moved>>
  /\ UNCHANGED k
  /\ RelaxFrame

\* the end of an iteration: clamp to bounds, lines 670-674; if (!moved) break; iter++
EndIter ==
  /\ pc = "clamp" /\ engine = "relax"
  /\ placed' = [n \in 1..Len(placed) |->
                  [placed[n] EXCEPT
                     !.cx = ClampLo(placed[n].cx, globalBounds.minX, globalBounds.maxX),
                     !.cy = ClampLo(placed[n].cy, globalBounds.minY, globalBounds.maxY)]]
  /\ IF ~moved
     THEN /\ stopped' = "stable"
          /\ pc' = "final"
          /\ UNCHANGED <<iter, pi, pj, moved>>
     ELSE /\ iter' = iter + 1
          /\ IF iter + 1 < maxIters
             THEN EnterIter /\ UNCHANGED stopped
             ELSE /\ stopped' = "budget"
                  /\ pc' = "final"
                  /\ UNCHANGED <<pi, pj, moved>>
  /\ UNCHANGED k
  /\ RelaxFrame

\* FinalClamp without the per-item clamp
FinalClampNone ==
  /\ pc = "final" /\ engine = "relax"
  /\ placed' = placed
  /\ pc' = "done"
  /\ UNCHANGED <<k, iter, pi, pj, moved, stopped>>
  /\ RelaxFrame

\* FinalClamp taking the bounds of specs[i] in the place of ordered[i]
FinalClampByInput ==
  /\ pc = "final" /\ engine = "relax"
  /\ placed' = [n \in 1..Len(placed) |->
                  LET own == calcBounds(args.specs[n].radiusPx, args.specs[n])
                  IN [placed[n] EXCEPT !.cx = ClampLo(placed[n].cx, own.minX, own.maxX),
                                       !.cy = ClampLo(placed[n].cy, own.minY, own.maxY)]]
  /\ pc' = "done"
  /\ UNCHANGED <<k, iter, pi, pj, moved, stopped>>
  /\ RelaxFrame

\* Final per-item clamp, lines 761-769, and return placed
FinalClamp ==
  /\ pc = "final" /\ engine = "relax"
  /\ placed' = [n \in 1..Len(placed) |->
                  LET b == calcBounds(placed[n].radiusPx, ordered[n])
                  IN [placed[n] EXCEPT !.cx = ClampLo(placed[n].cx, b.minX, b.maxX),
                                       !.cy = ClampLo(placed[n].cy, b.minY, b.maxY)]]
  /\ pc' = "done"
  /\ UNCHANGED <<k, iter, pi, pj, moved, stopped>>
  /\ RelaxFrame

(***************************************************************************)
(* Callers.  The engines are called with the argument lists below: the     *)
(* pages' own kinds of items (prefer-center items with a margin override,  *)
(* plain trash items) on non-small, small and degenerate viewports.        *)
(***************************************************************************)
NoOverride == [marginXPct |-> {}, marginYPct |-> {}, visibleFrac |-> {}]
NoOpts == [marginX |-> {}, marginY |-> {}, padding |-> {}]
NoOptsPx == [marginXPct |-> {}, marginYPct |-> {}, paddingPx |-> {}]

\* LayoutSpec of the percent engine, line 38
LayoutSpec(id, radius, rot) ==
  [id |-> id, radius |-> radius, rotRange |-> <<Px(0 - rot), Px(rot)>>]

\* Spec of the pixel retry engine, line 1322
SpecPx(id, R, rot) ==
  [id |-> id, radiusPx |-> Px(R), rotRange |-> <<Px(0 - rot), Px(rot)>>,
   fixedWidthPx |-> {}]

\* Spec of the relaxation engine, lines 610-617
SpecRelax(id, R, rot, override, prefer) ==
  [id |-> id, radiusPx |-> Px(R), rotRange |-> <<Px(0 - rot), Px(rot)>>,
   fixedWidthPx |-> Some(Px(2 * R)), boundsOverride |-> override, preferCenter |-> prefer]

Call(e, specs, w, h, opts) ==
  [engine |-> e, specs |-> specs, vw |-> Px(w), vh |-> Px(h), opts |-> opts]

\* the options the percent page passes, line 159
PagePctOpts == [marginX |-> Some(Px(6)), marginY |-> Some(Px(10)), padding |-> Some(RDiv(Px(3), 2))]
\* the options the pixel retry page passes, lines 1480-1484
PagePxOpts == [marginXPct |-> Some(Px(4)), marginYPct |-> Some(Px(6)), paddingPx |-> Some(Px(16))]
\* the options the relaxation page passes, lines 896-900
PageRelaxOpts == [marginXPct |-> Some(Px(4)), marginYPct |-> Some(Px(6)), paddingPx |-> Some(Px(40))]
\* boundsOverride of the flier, line 883
FlierOverride ==
  [marginXPct |-> Some(RDiv(Px(3), 2)), marginYPct |-> Some(Px(2)), visibleFrac |-> {}]

PctCalls ==
  { Call("pct", <<>>, 0, 0, NoOpts),
    Call("pct", <<LayoutSpec("flier", Px(10), 60)>>, 0, 0, NoOpts),
    Call("pct", <<LayoutSpec("phone", Px(4), 75), LayoutSpec("flier", Px(10), 60)>>,
         0, 0, PagePctOpts),
    Call("pct", <<LayoutSpec("trash-1", Px(30), 0), LayoutSpec("trash-2", Px(30), 25)>>,
         0, 0, NoOpts),
    Call("pct", <<LayoutSpec("trash-3", Px(2), 0), LayoutSpec("trash-4", Px(30), 0),
                  LayoutSpec("trash-5", Px(30), 0)>>,
         0, 0, NoOpts) }

PxCalls ==
  { Call("px", <<>>, 1200, 800, NoOptsPx),
    Call("px", <<[SpecPx("flier", 224, 60) EXCEPT !.fixedWidthPx = Some(Px(400))]>>,
         1200, 800, NoOptsPx),
    Call("px", <<SpecPx("phone", 48, 75), SpecPx("flier", 224, 60)>>, 1200, 800, PagePxOpts),
    Call("px", <<SpecPx("trash-cup", 150, 0), SpecPx("trash-band", 150, 25)>>,
         500, 500, NoOptsPx) }

RelaxCalls ==
  { Call("relax", <<>>, 1200, 800, NoOptsPx),
    Call("relax", <<[SpecRelax("trash-dino", 100, 25, NoOverride, FALSE)
                       EXCEPT !.fixedWidthPx = Some(Px(150))]>>,
         1200, 800, NoOptsPx),
    Call("relax", <<SpecRelax("flier", 200, 60, FlierOverride, TRUE)>>, 300, 300, PageRelaxOpts),
    Call("relax", <<SpecRelax("trash-dino", 80, 0, NoOverride, FALSE),
                    [SpecRelax("trash-band", 100, 0, NoOverride, FALSE)
                       EXCEPT !.fixedWidthPx = {}]>>,
         1200, 800, [marginXPct |-> {}, marginYPct |-> {}, paddingPx |-> Some(Px(16))]),
    Call("relax", <<SpecRelax("trash-keys", 100, 0, NoOverride, FALSE),
                    SpecRelax("trash-flipflop", 200, 0, NoOverride, FALSE)>>,
         1000, 700, NoOptsPx),
    Call("relax", <<SpecRelax("trash-cup", 120, 25, NoOverride, FALSE),
                    SpecRelax("flier", 100, 0, FlierOverride, TRUE)>>,
         1200, 800, PageRelaxOpts),
    Call("relax", <<SpecRelax("flier", 100, 0, FlierOverride, TRUE),
                    SpecRelax("trash-vape", 40, 0, NoOverride, FALSE)>>,
         600, 600, PageRelaxOpts),
    Call("relax", <<SpecRelax("trash-cup", 300, 0, NoOverride, FALSE),
                    SpecRelax("trash-band", 300, 0, NoOverride, FALSE)>>,
         500, 500, [marginXPct |-> {}, marginYPct |-> {}, paddingPx |-> Some(Px(56))]),
    Call("relax", <<SpecRelax("trash-cup", 600, 0, NoOverride, FALSE),
                    SpecRelax("trash-band", 600, 0, NoOverride, FALSE)>>,
         700, 700, [marginXPct |-> {}, marginYPct |-> {}, paddingPx |-> Some(Px(64))]) }

Calls == PctCalls \cup PxCalls \cup RelaxCalls

Idle ==
  /\ args = NoArgs
  /\ ordered = <<>>
  /\ placed = <<>>
  /\ pc = "idle"
  /\ k = 0
  /\ tries = 0
  /\ iter = 0
  /\ pi = 0
  /\ pj = 0
  /\ moved = FALSE
  /\ fellBack = {}
  /\ stopped = "no"

\* useState<Focus>({ type: "null" }); the first revision writes { type: null }
NoFocus == [type |-> "null", id |-> "", url |-> ""]

\* no page is mounted, or its focus state is as useState left it
Unfocused ==
  /\ focus = NoFocus
  /\ show3D = FALSE
  /\ timer = "none"
  /\ effect = "done"

Init ==
  /\ Idle
  /\ page = "none"
  /\ viewport = {}
  /\ memo = {}
  /\ Unfocused

\* Enter with specs.sort(...) in the place of [...specs].sort(...): the caller's
\* array is reordered
EnterSortsInPlace(call) ==
  /\ pc = "idle"
  /\ args' = [call EXCEPT !.specs = Sort(call.engine, call.specs)]
  /\ ordered' = Sort(call.engine, call.specs)
  /\ placed' = <<>>
  /\ k' = 1
  /\ tries' = 0
  /\ iter' = 0
  /\ fellBack' = {}
  /\ stopped' = "no"
  /\ IF call.engine = "relax"
     THEN IF Len(call.specs) = 0
          THEN /\ moved' = FALSE /\ pi' = 1 /\ pj' = 2 /\ pc' = "clamp"
          ELSE /\ pc' = "seed" /\ UNCHANGED <<pi, pj, moved>>
     ELSE /\ pc' = IF Len(call.specs) = 0 THEN "done" ELSE "try"
          /\ UNCHANGED <<pi, pj, moved>>

\* the entry of an engine up to its first loop: the options, ordered, an empty placed
Enter(call) ==
  /\ pc = "idle"
  /\ args' = call
  /\ ordered' = Sort(call.engine, call.specs)
  /\ placed' = <<>>
  /\ k' = 1
  /\ tries' = 0
  /\ iter' = 0
  /\ fellBack' = {}
  /\ stopped' = "no"
  /\ IF call.engine = "relax"
     THEN IF Len(call.specs) = 0
          THEN /\ moved' = FALSE /\ pi' = 1 /\ pj' = 2 /\ pc' = "clamp"
          ELSE /\ pc' = "seed" /\ UNCHANGED <<pi, pj, moved>>
     ELSE /\ pc' = IF Len(call.specs) = 0 THEN "done" ELSE "try"
          /\ UNCHANGED <<pi, pj, moved>>

\* the invocation's locals are gone once it has returned
Leave ==
  /\ pc = "done"
  /\ args' = NoArgs
  /\ ordered' = <<>>
  /\ placed' = <<>>
  /\ pc' = "idle"
  /\ k' = 0
  /\ tries' = 0
  /\ iter' = 0
  /\ pi' = 0
  /\ pj' = 0
  /\ moved' = FALSE
  /\ fellBack' = {}
  /\ stopped' = "no"

Invoke ==
  /\ page = "none"
  /\ \E call \in Calls : Enter(call)
  /\ UNCHANGED <<page, viewport, memo, focus, show3D, timer, effect>>

\* the caller takes the returned array
Return ==
  /\ page = "none"
  /\ Leave
  /\ UNCHANGED <<page, viewport, memo, focus, show3D, timer, effect>>

Next ==
  \/ Invoke
  \/ TryPct \/ FallbackPct
  \/ TryPx \/ FallbackPx
  \/ SeedItem \/ RelaxPair \/ EndIter \/ FinalClamp
  \/ Return

Spec == Init /\ [][Next]_vars

(***************************************************************************)
(* The page component FestivalGroundSite of the two pixel revisions:       *)
(* lines 813-915 (relaxation revision) and 1416-1499 (pixel retry          *)
(* revision).  set() stores the observed size; the render that follows     *)
(* recomputes placed = useMemo(..., [viewport]) by calling the engine.     *)
(***************************************************************************)
\* How many leading entries of the page's specs array are laid out.
PageItems == 2

\* Math.min(maxScale, Math.max(minScale, ref / base)), then * 0.8 below 700; per mille
scaleRelax(w, h) ==
  LET ref == Min2(w, h)
      scale == Min2(1200, Max2(700, RDiv(ref * 1000, 1200)))
  IN IF ref < SmallEdge THEN Mil(scale, 800) ELSE scale

scalePx(w, h) == Min2(1200, Max2(700, RDiv(Min2(w, h) * 1000, 1200)))

\* const W = (designPx) => Math.max(40, Math.round(designPx * scale)), in pixels
W(designPx, scale) == Max2(40, RDiv(designPx * scale, 1000))

PageItemRelax(id, designPx, rot, override, prefer, scale) ==
  [id |-> id, radiusPx |-> RDiv(Px(W(designPx, scale)), 2),
   rotRange |-> <<Px(0 - rot), Px(rot)>>, fixedWidthPx |-> Some(Px(W(designPx, scale))),
   boundsOverride |-> override, preferCenter |-> prefer]

\* const SIZES and const specs: Spec[] of the relaxation revision, lines 868-894,
\* at the scale s per mille
specsRelaxAt(s) ==
     << PageItemRelax("flier", 480, 60, FlierOverride, TRUE, s),
        PageItemRelax("phone", 168, 75, NoOverride, TRUE, s),
        PageItemRelax("trash-dino", 160, 25, NoOverride, FALSE, s),
        PageItemRelax("trash-band", 190, 25, NoOverride, FALSE, s),
        PageItemRelax("trash-cup", 238, 25, NoOverride, FALSE, s),
        PageItemRelax("trash-bottle", 216, 25, NoOverride, FALSE, s),
        PageItemRelax("trash-flipflop", 440, 25, NoOverride, FALSE, s),
        PageItemRelax("trash-glowstick", 160, 25, NoOverride, FALSE, s),
        PageItemRelax("trash-keys", 180, 25, NoOverride, FALSE, s),
        PageItemRelax("trash-lighter", 150, 25, NoOverride, FALSE, s),
        PageItemRelax("trash-vape", 150, 25, NoOverride, FALSE, s) >>

\* the specs the render builds for the viewport { w, h }
specsRelax(w, h) == specsRelaxAt(scaleRelax(w, h))

PageItemPx(id, designPx, rot, scale) ==
  [id |-> id, radiusPx |-> RDiv(Px(W(designPx, scale)), 2),
   rotRange |-> <<Px(0 - rot), Px(rot)>>, fixedWidthPx |-> Some(Px(W(designPx, scale)))]

\* const specs: Spec[] of the pixel retry revision, lines 1462-1478
specsPx(w, h) ==
  LET s == scalePx(w, h)
  IN << PageItemPx("flier", 640, 60, s),
        PageItemPx("phone", 96, 75, s),
        PageItemPx("trash-dino", 160, 25, s),
        PageItemPx("trash-band", 190, 25, s),
        PageItemPx("trash-cup", 238, 25, s),
        PageItemPx("trash-bottle", 144, 25, s) >>

Leading(s) == SubSeq(s, 1, Min2(PageItems, Len(s)))

\* the call the render makes for the viewport { w, h }
PageCall(p, w, h) ==
  IF p = "relax"
  THEN Call("relax", Leading(specsRelax(w, h)), w, h, PageRelaxOpts)
  ELSE Call("px", Leading(specsPx(w, h)), w, h, PagePxOpts)

\* the sizes window.innerWidth x innerHeight (visualViewport) is observed at
ObservedSizes(p) ==
  IF p = "relax" THEN {<<0, 800>>, <<1200, 800>>}
  ELSE {<<0, 800>>, <<1200, 800>>, <<300, 300>>}

PageInit ==
  /\ Idle
  /\ page \in {"px", "relax"}
  /\ viewport = {}
  /\ memo = {}
  /\ Unfocused

\* Observe with useMemo(..., []): a layout once computed is kept on later resizes
ObserveStale ==
  /\ page # "none"
  /\ \E size \in ObservedSizes(page) :
       /\ viewport' = {[w |-> size[1], h |-> size[2]]}
       /\ IF memo = {}
          THEN Enter(PageCall(page, size[1], size[2])) /\ memo' = {}
          ELSE /\ pc = "idle"
               /\ UNCHANGED <<args, ordered, placed, pc, k, tries, iter, pi, pj, moved,
                              fellBack, stopped, memo>>
  /\ UNCHANGED <<page, focus, show3D, timer, effect>>

\* set(): setViewport({ w, h }), on mount and on every resize event; the render
\* that follows begins recomputing placed (if (!viewport) return null does not apply)
Observe ==
  /\ page # "none"
  /\ \E size \in ObservedSizes(page) :
       /\ Enter(PageCall(page, size[1], size[2]))
       /\ viewport' = {[w |-> size[1], h |-> size[2]]}
  /\ memo' = {}
  /\ UNCHANGED <<page, focus, show3D, timer, effect>>

\* the engine has returned: the render has its placed
Commit ==
  /\ page # "none"
  /\ memo' = {[deps |-> viewport, value |-> placed]}
  /\ Leave
  /\ UNCHANGED <<page, viewport, focus, show3D, timer, effect>>

\* if (!viewport || !placed) the page shows the background only, lines 908-915
groundRendered == pc = "idle" /\ viewport # {} /\ memo # {}

PageNext ==
  \/ Observe
  \/ TryPx \/ FallbackPx
  \/ SeedItem \/ RelaxPair \/ EndIter \/ FinalClamp
  \/ Commit

PageSpec == PageInit /\ [][PageNext]_vars

(***************************************************************************)
(* The focus state of FestivalGroundSite: const [focus, setFocus] and, in  *)
(* the revisions with the 3D viewer (page.tsx lines 103-112, part_000      *)
(* lines 80-90), const [show3D, setShow3D] with the effect on [focus].     *)
(* Every setFocus is an onClick: the render and the effect that follow it  *)
(* run before the handler's task ends, so no timer callback and no other   *)
(* click comes between a setFocus and the effect on the new focus.         *)
(***************************************************************************)
\* trashImgs with the nine images of the relaxation revision on both pixel pages
trashImgsNine(p) ==
  IF p = "pct"
  THEN << [id |-> "trash-1", url |-> "photo-1520975922215"],
          [id |-> "trash-2", url |-> "photo-1543429258"],
          [id |-> "trash-3", url |-> "photo-1559070217"],
          [id |-> "trash-4", url |-> "photo-1520975443608"],
          [id |-> "trash-5", url |-> "photo-1542834369"],
          [id |-> "trash-dino", url |-> "/images/dinobracelet.png"] >>
  ELSE << [id |-> "trash-dino", url |-> "/images/dinobracelet.png"],
          [id |-> "trash-band", url |-> "/images/wristband.png"],
          [id |-> "trash-cup", url |-> "/images/cup.png"],
          [id |-> "trash-bottle", url |-> "/images/waterbottle.png"],
          [id |-> "trash-flipflop", url |-> "/images/flipflop.png"],
          [id |-> "trash-glowstick", url |-> "/images/glowstick.png"],
          [id |-> "trash-keys", url |-> "/images/keys.png"],
          [id |-> "trash-lighter", url |-> "/images/lighter.png"],
          [id |-> "trash-vape", url |-> "/images/vape.png"] >>

\* the trash images the page renders as ground items: trashImgs of the first
\* revision (lines 137-144), the array literals of the relaxation revision
\* (924-934) and of the pixel retry revision (1507-1512)
trashImgs(p) ==
  IF p = "pct"
  THEN << [id |-> "trash-1", url |-> "photo-1520975922215"],
          [id |-> "trash-2", url |-> "photo-1543429258"],
          [id |-> "trash-3", url |-> "photo-1559070217"],
          [id |-> "trash-4", url |-> "photo-1520975443608"],
          [id |-> "trash-5", url |-> "photo-1542834369"],
          [id |-> "trash-dino", url |-> "/images/dinobracelet.png"] >>
  ELSE IF p = "relax"
  THEN << [id |-> "trash-dino", url |-> "/images/dinobracelet.png"],
          [id |-> "trash-band", url |-> "/images/wristband.png"],
          [id |-> "trash-cup", url |-> "/images/cup.png"],
          [id |-> "trash-bottle", url |-> "/images/waterbottle.png"],
          [id |-> "trash-flipflop", url |-> "/images/flipflop.png"],
          [id |-> "trash-glowstick", url |-> "/images/glowstick.png"],
          [id |-> "trash-keys", url |-> "/images/keys.png"],
          [id |-> "trash-lighter", url |-> "/images/lighter.png"],
          [id |-> "trash-vape", url |-> "/images/vape.png"] >>
  ELSE << [id |-> "trash-dino", url |-> "/images/dinobracelet.png"],
          [id |-> "trash-band", url |-> "/images/wristband.png"],
          [id |-> "trash-cup", url |-> "/images/cup.png"],
          [id |-> "trash-bottle", url |-> "/images/waterbottle.png"] >>

\* the ids of the ground items the page returns: P["flier"], P["phone"] and
\* P[s.id] of every trash image are read
groundIds(p) == {"flier", "phone"} \cup {trashImgs(p)[n].id : n \in 1..Len(trashImgs(p))}

\* const specs of the page p for the viewport { w, h }
pageSpecs(p, w, h) == IF p = "relax" THEN specsRelax(w, h) ELSE specsPx(w, h)

\* const P = Object.fromEntries(placed.map(p => [p.id, p])): its keys
keysOfP(value) == {value[n].id : n \in 1..Len(value)}

\* the page has returned the ground items: the first revision always does, the
\* pixel revisions past if (!viewport || !placed)
groundShown == IF page = "pct" THEN pc = "idle" ELSE groundRendered

\* what setFocus is given by the onClick of a ground item
TrashFocus(s) == [type |-> "trash", id |-> s.id, url |-> s.url]
FlierFocus == [type |-> "flier", id |-> "", url |-> ""]
PhoneFocus == [type |-> "phone", id |-> "", url |-> ""]

\* the ground items a click is tried on
groundClicks(p) ==
  {FlierFocus, PhoneFocus} \cup
    {TrashFocus(trashImgs(p)[n]) : n \in 1..Min2(PageItems, Len(trashImgs(p)))}

\* the close controls the page renders for its focus: the backdrop button
\* ({focus.type && ...} lines 258-270, flier or phone only lines 996-1008), the
\* close button of the flier and of the phone dialog, and for a trash item
\* TrashFocus's onClose (line 333) or the click catcher and the image (1052, 1067)
closeControls ==
  CASE focus.type = "flier" -> {"backdrop", "flier-close"}
    [] focus.type = "phone" -> {"backdrop", "phone-close"}
    [] focus.type = "trash" ->
         IF page = "pct" THEN {"backdrop", "trash-close"} ELSE {"trash-catcher", "trash-image"}
    [] OTHER -> {}

\* the dialogs the render returns for its focus
dialogs ==
  {d \in {"flier", "phone", "trash"} : focus.type = d}

\* setFocus(f) and the commit that follows: the effect on [focus] is due where
\* there is one
setFocus(f) ==
  /\ focus' = f
  /\ effect' = IF page = "pct" THEN "pending" ELSE effect
  /\ UNCHANGED <<show3D, timer>>

EngineFrame ==
  UNCHANGED <<args, ordered, placed, pc, k, tries, iter, pi, pj, moved, fellBack, stopped,
              page, viewport, memo>>

\* onClick of a ground item: setFocus({ type: "trash", url: s.url, id: s.id }),
\* setFocus({ type: "flier" }) or setFocus({ type: "phone" })
Open ==
  /\ page \in {"pct", "relax"}
  /\ groundShown /\ effect = "done"
  /\ \E f \in groundClicks(page) : setFocus(f)
  /\ EngineFrame

\* onClick of a close control: setFocus({ type: "null" })
Close ==
  /\ page \in {"pct", "relax"}
  /\ groundShown /\ effect = "done"
  /\ closeControls # {}
  /\ setFocus(NoFocus)
  /\ EngineFrame

\* RunEffect with the cleanup () => clearTimeout(t) left out
RunEffectNoCleanup ==
  /\ page = "pct" /\ effect = "pending"
  /\ IF focus.type = "trash"
     THEN timer' = "armed" /\ UNCHANGED show3D
     ELSE show3D' = FALSE /\ UNCHANGED timer
  /\ effect' = "done"
  /\ UNCHANGED focus
  /\ EngineFrame

\* the effect on [focus], lines 106-112: the cleanup of its last run clears that
\* run's timer, then a trash focus starts the 420 ms timer and any other focus
\* calls setShow3D(false)
RunEffect ==
  /\ page = "pct" /\ effect = "pending"
  /\ IF focus.type = "trash"
     THEN timer' = "armed" /\ UNCHANGED show3D
     ELSE timer' = "none" /\ show3D' = FALSE
  /\ effect' = "done"
  /\ UNCHANGED focus
  /\ EngineFrame

\* the timer's callback () => setShow3D(true), 420 ms after it was started
Fire ==
  /\ page = "pct" /\ effect = "done"
  /\ timer = "armed"
  /\ show3D' = TRUE
  /\ timer' = "none"
  /\ UNCHANGED <<focus, effect>>
  /\ EngineFrame

\* Resize remounting the page: the focus state starts over
ResizeRemounts ==
  /\ page = "relax"
  /\ \E size \in ObservedSizes(page) :
       /\ Enter(PageCall(page, size[1], size[2]))
       /\ viewport' = {[w |-> size[1], h |-> size[2]]}
  /\ memo' = {}
  /\ focus' = NoFocus
  /\ UNCHANGED <<page, show3D, timer, effect>>

\* set() of the relaxation revision, on mount and on a resize event
Resize == page = "relax" /\ Observe

\* the first revision is mounted with its effect due; the relaxation revision
\* with no viewport yet
FocusInit ==
  /\ Idle
  /\ page \in {"pct", "relax"}
  /\ viewport = {}
  /\ memo = {}
  /\ focus = NoFocus
  /\ show3D = FALSE
  /\ timer = "none"
  /\ effect = IF page = "pct" THEN "pending" ELSE "done"

FocusNext ==
  \/ Open \/ Close
  \/ RunEffect \/ Fire
  \/ Resize
  \/ SeedItem \/ RelaxPair \/ EndIter \/ FinalClamp
  \/ Commit

FocusSpec == FocusInit /\ [][FocusNext]_vars

(***************************************************************************)
(* Properties.                                                             *)
(***************************************************************************)
IdsOf(s) == {s[n].id : n \in 1..Len(s)}
returned == pc = "done"
retryEngine == engine \in {"pct", "px"}

\* the center of a placed item, whichever engine placed it
X(p) == IF engine = "pct" THEN p.left ELSE p.cx
Y(p) == IF engine = "pct" THEN p.top ELSE p.cy
Rad(p) == IF engine = "pct" THEN p.radius ELSE p.radiusPx

\* the padding the caller asked for
askedPadding ==
  CASE engine = "pct" -> padding
    [] engine = "px" -> retryPaddingPx
    [] OTHER -> requestedPad

\* Math.hypot between the centers of a and b is >= radius(a) + radius(b) + pad
Apart(a, b, pad) == HypotGe(X(a) - X(b), Y(a) - Y(b), Rad(a) + Rad(b) + pad)

\* C1: every engine returns exactly one placed item per input spec: the same
\* length, the same set of ids, no id twice.
C1_OnePerSpec ==
  returned =>
    /\ Len(placed) = Len(args.specs)
    /\ IdsOf(placed) = IdsOf(args.specs)
    /\ Cardinality(IdsOf(placed)) = Len(placed)

\* a retry engine has returned two items, one accepted by sampling and one by the fallback
C1_Witness ==
  /\ returned /\ engine = "pct"
  /\ Len(placed) = 2
  /\ Cardinality(fellBack) = 1

\* the bounds [margin + radius, extent - margin - radius] of an item of a retry engine
retryBoundsOf(p) ==
  IF engine = "pct"
  THEN [minX |-> marginX + p.radius, maxX |-> Px(100) - marginX - p.radius,
        minY |-> marginY + p.radius, maxY |-> Px(100) - marginY - p.radius]
  ELSE retryBounds(p.radiusPx)

Within(p, b) == b.minX <= X(p) /\ X(p) <= b.maxX /\ b.minY <= Y(p) /\ Y(p) <= b.maxY

\* C2 as claimed: in the relaxation engine every returned center lies within the
\* item's own calcBounds, inclusive, for every viewport and spec list.
C2_WithinOwnBounds ==
  (returned /\ engine = "relax") =>
    \A n \in 1..Len(placed) : Within(placed[n], calcBounds(placed[n].radiusPx, ordered[n]))

\* x is within [min, max] when that interval is not empty, and is min when it is empty
ClampedInto(x, min, max) == IF min <= max THEN min <= x /\ x <= max ELSE x = min

\* C2 as amended: on each axis a returned center lies within the item's own bounds
\* when they are not empty (min <= max), and at the lower bound when they are empty.
C2_ClampedIntoOwnBounds ==
  (returned /\ engine = "relax") =>
    \A n \in 1..Len(placed) :
      LET b == calcBounds(placed[n].radiusPx, ordered[n])
      IN /\ ClampedInto(placed[n].cx, b.minX, b.maxX)
         /\ ClampedInto(placed[n].cy, b.minY, b.maxY)

\* relaxation has stopped with an item outside its own non-empty bounds: the final
\* clamp is about to move it
C2_Witness ==
  /\ pc = "final" /\ engine = "relax"
  /\ \E n \in 1..Len(placed) :
       LET b == calcBounds(placed[n].radiusPx, ordered[n])
       IN b.minX <= b.maxX /\ b.minY <= b.maxY /\ ~Within(placed[n], b)

\* C3: in both retry engines every returned center, that of a fallback item included,
\* lies within [margin + radius, extent - margin - radius] on both axes.
C3_RetryWithinBounds ==
  (returned /\ retryEngine) =>
    \A n \in 1..Len(placed) : Within(placed[n], retryBoundsOf(placed[n]))

\* C4: in both retry engines any two returned items of which neither took the
\* fallback are at least radius(a) + radius(b) + padding apart.
C4_SampledApart ==
  (returned /\ retryEngine) =>
    \A m \in 1..Len(placed), n \in 1..Len(placed) :
      (m < n /\ placed[m].id \notin fellBack /\ placed[n].id \notin fellBack)
        => Apart(placed[m], placed[n], askedPadding)

\* the pixel retry engine has returned two sampled items
C4_Witness ==
  /\ returned /\ engine = "px"
  /\ Len(placed) = 2
  /\ fellBack = {}

AllApart(pad) ==
  \A m \in 1..Len(placed), n \in 1..Len(placed) :
    m < n => Apart(placed[m], placed[n], pad)

\* C5: when relaxLayout stopped before its iteration budget (an iteration without
\* movement), every pair of the returned layout is at least
\* radius(a) + radius(b) + padding apart.
C5_StableMeansApart ==
  (returned /\ engine = "relax" /\ stopped = "stable") => AllApart(askedPadding)

\* an invocation is between its call and its return
running == pc \notin {"idle", "done"}

\* the budget the running engine works under: tries per item, or iterations
Budget ==
  CASE engine = "pct" -> 500
    [] engine = "px" -> 900
    [] engine = "relax" -> IF Min2(vw, vh) < Px(700) THEN 900 ELSE 700
    [] OTHER -> 0

\* the steps of one relaxation iteration are fewer than this
IterWeight == Len(ordered) * Len(ordered) + 2

\* a bound on the number of steps the running invocation still takes
Rank ==
  CASE pc = "try" -> (Len(ordered) - k) * (Budget + 1) + (Budget - tries) + 1
    [] pc = "seed" -> 2 + Budget * IterWeight + (Len(ordered) - k + 1)
    [] pc = "pairs" -> 1 + (Budget - iter) * IterWeight - ((pi - 1) * Len(ordered) + pj)
    [] pc = "clamp" -> 2 + (Budget - iter - 1) * IterWeight
    [] pc = "final" -> 1
    [] OTHER -> 0

\* the running invocation is at one of its steps, with the step's operands in range
AtStep ==
  CASE pc = "try" -> retryEngine /\ k \in 1..Len(ordered) /\ tries >= 0
    [] pc = "seed" -> engine = "relax" /\ k \in 1..Len(ordered)
    [] pc = "pairs" -> engine = "relax" /\ 1 <= pi /\ pi < pj /\ pj <= Len(placed)
    [] pc \in {"clamp", "final"} -> engine = "relax" /\ Len(placed) = Len(ordered)
    [] OTHER -> FALSE

\* C6: every invocation terminates: a retry engine makes at most 500 (percent) or
\* 900 (pixel) tries per item before it falls back, relaxLayout runs at most 700
\* iterations, 900 on a small viewport; a running invocation is at a step it can
\* take, and every step lowers a positive bound on the steps that remain.
C6_Terminates ==
  /\ [](engine \in {"pct", "px"} => tries <= Budget)
  /\ [](engine = "relax" => iter <= Budget /\ (pc \in {"pairs", "clamp"} => iter < Budget))
  /\ [](running => Rank > 0 /\ AtStep)
  /\ [][running => Rank' < Rank]_vars

\* an infeasible layout used up a whole budget: relaxation ran its 900 iterations
\* on a small viewport and returned
C6_Witness ==
  /\ returned /\ engine = "relax"
  /\ stopped = "budget" /\ iter = 900

\* the center of the bounds of a retry engine's item, and the viewport center
\* clamped into them
boundsCenter(b) == [x |-> RDiv(b.minX + b.maxX, 2), y |-> RDiv(b.minY + b.maxY, 2)]
viewportCenter(b) ==
  LET w == IF engine = "pct" THEN Px(100) ELSE vw
      h == IF engine = "pct" THEN Px(100) ELSE vh
  IN [x |-> ClampLo(RDiv(w, 2), b.minX, b.maxX), y |-> ClampLo(RDiv(h, 2), b.minY, b.maxY)]

\* C7: in both retry engines an item that found no place within the try budget is
\* returned all the same, at the center of its bounds or at the viewport center
\* clamped into its bounds, with rotation 0.
C7_FallbackAtCenter ==
  (returned /\ retryEngine) =>
    /\ fellBack \subseteq IdsOf(placed)
    /\ \A n \in 1..Len(placed) :
         placed[n].id \in fellBack =>
           LET b == retryBoundsOf(placed[n])
               at == [x |-> X(placed[n]), y |-> Y(placed[n])]
           IN placed[n].rot = 0 /\ at \in {boundsCenter(b), viewportCenter(b)}

\* the items of the running relaxation call that carry no visibleFrac override
PlainFrac == {n \in 1..Len(ordered) : ordered[n].boundsOverride.visibleFrac = {}}

\* the distances the bounds b keep from the four viewport edges of the arguments a
Insets(a, b) == <<b.minX, a.vw - b.maxX, b.minY, a.vh - b.maxY>>

\* the non-small viewports the relaxation engine is called with
NonSmallSizes ==
  {<<c.vw, c.vh>> : c \in {d \in RelaxCalls : ~smallViewportAt(d)}}

\* C8 as claimed: for an item with no visibleFrac override the distance its center
\* keeps from each viewport edge (for one radius, so as a fraction of it) is no
\* larger on a small viewport than on a non-small one.
C8_SmallKeepsLess ==
  (engine = "relax" /\ Min2(vw, vh) < Px(700)) =>
    \A n \in PlainFrac, size \in NonSmallSizes :
      LET s == ordered[n]
          big == [args EXCEPT !.vw = size[1], !.vh = size[2]]
          here == Insets(args, calcBoundsAt(args, s.radiusPx, s))
          there == Insets(big, calcBoundsAt(big, s.radiusPx, s))
      IN \A e \in 1..4 : here[e] <= there[e]

\* C8 as amended: for an item with no visibleFrac override the distance kept from
\* each viewport edge is 0.85 of the radius on a small viewport, and the margin
\* plus 0.6 of the radius on a non-small one: the fraction of the radius is the
\* larger one on small viewports, only the margin is given up.
C8_SmallKeepsMoreOfRadius ==
  engine = "relax" =>
    \A n \in PlainFrac :
      LET s == ordered[n]
          b == calcBounds(s.radiusPx, s)
          in == Insets(args, b)
      IN IF Min2(vw, vh) < Px(700)
         THEN b.vf = 850 /\ \A e \in 1..4 : in[e] = Mil(s.radiusPx, 850)
         ELSE b.vf = 600 /\ \A e \in 1..4 : in[e] >= Mil(s.radiusPx, 600)

\* relaxation has returned a layout on a small viewport of an item whose distance
\* from the edges is larger than on a non-small viewport
C8_Witness ==
  /\ returned /\ engine = "relax" /\ smallViewport
  /\ \E n \in PlainFrac, size \in NonSmallSizes :
       LET s == ordered[n]
           big == [args EXCEPT !.vw = size[1], !.vh = size[2]]
       IN calcBounds(s.radiusPx, s).minX > calcBoundsAt(big, s.radiusPx, s).minX

\* C9: a viewport is small exactly when min(vw, vh) < 700: below it every item's
\* bounds have x and y margins of zero, an item with a boundsOverride margin
\* included, and the iteration budget is 900; from 700 on an item without a margin
\* override keeps its margin of at least 12 px, and the budget is 700.
C9_SmallMeansNoMargin ==
  engine = "relax" =>
    \A n \in 1..Len(ordered) :
      LET s == ordered[n]
          b == calcBounds(s.radiusPx, s)
          in == Insets(args, b)
          part == Mil(s.radiusPx, b.vf)
      IN IF Min2(vw, vh) < Px(700)
         THEN /\ \A e \in 1..4 : in[e] = part
              /\ stopped = "budget" => iter = 900
         ELSE /\ s.boundsOverride.marginXPct = {} => in[1] >= part + Px(12) /\ in[2] >= part + Px(12)
              /\ s.boundsOverride.marginYPct = {} => in[3] >= part + Px(12) /\ in[4] >= part + Px(12)
              /\ stopped = "budget" => iter = 700

\* relaxation has returned a layout on a small viewport that holds an item with a
\* boundsOverride margin
C9_Witness ==
  /\ returned /\ engine = "relax"
  /\ Min2(vw, vh) < Px(700)
  /\ \E n \in 1..Len(ordered) :
       ordered[n].boundsOverride.marginXPct # {} /\ ordered[n].boundsOverride.marginYPct # {}

\* the observed viewport has a zero or negative width or height
malformed == \E v \in viewport : v.w <= 0 \/ v.h <= 0

\* C10: while the observed viewport has a zero or negative width or height the page
\* computes no placement: no engine is called, placed stays null and no ground
\* item is rendered.
C10_MalformedDefers ==
  malformed => (pc = "idle" /\ memo = {} /\ ~groundRendered)

\* C11: given an empty spec list every engine returns an empty list: nothing is
\* ever placed, no try is made, no fallback taken, and relaxLayout leaves its
\* loop in the first iteration.
C11_EmptyInEmptyOut ==
  (running \/ returned) /\ Len(args.specs) = 0 =>
    /\ placed = <<>>
    /\ fellBack = {}
    /\ tries = 0 /\ iter = 0
    /\ stopped # "budget"

\* the relaxation engine has returned from a call with no specs
C11_Witness ==
  /\ returned /\ engine = "relax"
  /\ Len(args.specs) = 0
  /\ stopped = "stable"

\* the invocation was given exactly one spec
oneSpec == running /\ Len(args.specs) = 1

\* the bounds of the only item of the call
onlyBounds ==
  IF engine = "relax" THEN calcBounds(ordered[1].radiusPx, ordered[1])
  ELSE IF engine = "px" THEN retryBounds(ordered[1].radiusPx)
  ELSE [minX |-> marginX + ordered[1].radius, maxX |-> Px(100) - marginX - ordered[1].radius,
        minY |-> marginY + ordered[1].radius, maxY |-> Px(100) - marginY - ordered[1].radius]

NonEmpty(b) == b.minX <= b.maxX /\ b.minY <= b.maxY

\* a retry engine's first try of its only item accepts the candidate
FirstTryAccepts ==
  pc = "try" => tries = 0 /\ Len(placed') = 1 /\ fellBack' = {} /\ pc' = "done"

\* relaxLayout finds no pair for the only item and stops in its first iteration
StopsAtOnce == pc = "clamp" => iter = 0 /\ stopped' = "stable" /\ pc' = "final"

\* C12 as claimed: given exactly one spec the item is returned at its initially
\* sampled center, inside its bounds: a retry engine accepts the first candidate
\* without the fallback, relaxLayout moves nothing and stops after its first
\* iteration, and the final clamp leaves the center where it was seeded.
C12_OneItemStays ==
  [][oneSpec =>
       /\ retryEngine => FirstTryAccepts /\ (pc = "try" => Within(placed'[1], onlyBounds))
       /\ engine = "relax" =>
            /\ pc = "seed" => Within(placed'[1], onlyBounds)
            /\ pc \in {"clamp", "final"} => placed' = placed
            /\ StopsAtOnce]_vars

\* C12 as amended: the same for an item whose bounds are not empty; when the
\* viewport is too small for the item (min > max on an axis) the relaxation engine
\* seeds the center at the upper bound of that axis and returns it at the lower
\* bound, still without a second iteration, and a retry engine still accepts its
\* first candidate.
C12_OneItemStaysInRoom ==
  [][oneSpec =>
       /\ retryEngine =>
            /\ FirstTryAccepts
            /\ (pc = "try" /\ NonEmpty(onlyBounds)) => Within(placed'[1], onlyBounds)
       /\ engine = "relax" =>
            LET b == onlyBounds
            IN /\ pc = "seed" =>
                    /\ IF b.minX <= b.maxX
                       THEN b.minX <= placed'[1].cx /\ placed'[1].cx <= b.maxX
                       ELSE placed'[1].cx = b.maxX
                    /\ IF b.minY <= b.maxY
                       THEN b.minY <= placed'[1].cy /\ placed'[1].cy <= b.maxY
                       ELSE placed'[1].cy = b.maxY
               /\ (pc \in {"clamp", "final"} /\ NonEmpty(b)) => placed' = placed
               /\ pc \in {"clamp", "final"} =>
                    /\ ClampedInto(placed'[1].cx, b.minX, b.maxX)
                    /\ ClampedInto(placed'[1].cy, b.minY, b.maxY)
               /\ StopsAtOnce]_vars

\* the relaxation engine has returned the only item of a call, whose bounds are
\* not empty, after one iteration
C12_Witness ==
  /\ returned /\ engine = "relax"
  /\ Len(args.specs) = 1 /\ Len(placed) = 1
  /\ NonEmpty(calcBounds(ordered[1].radiusPx, ordered[1]))
  /\ iter = 0 /\ stopped = "stable"

\* the layout the page renders the ground items from
rendered == {m.value : m \in memo}

\* the specs and the call the page makes for the viewport v
specsFor(v) == PageCall(page, v.w, v.h).specs

\* C13: in the pixel-based pages the layout used for rendering is the one computed
\* from the most recently observed viewport size: every notification discards the
\* previous layout whole and starts a placement from an empty list for the new
\* size, and what is rendered holds exactly the items of that placement.
C13_LastViewportWins ==
  /\ [](page # "none" /\ groundRendered =>
          \A m \in memo, v \in viewport :
            /\ m.deps = {v}
            /\ Len(m.value) = Len(specsFor(v))
            /\ IdsOf(m.value) = IdsOf(specsFor(v)))
  /\ [](page # "none" /\ (running \/ returned) =>
          \A v \in viewport : args = PageCall(page, v.w, v.h) /\ memo = {})
  /\ [][page # "none" /\ viewport' # viewport => memo' = {} /\ placed' = <<>>]_vars
  /\ [][page # "none" /\ memo' # memo /\ memo' # {} =>
          memo' = {[deps |-> viewport', value |-> placed]}]_vars

\* the page renders a layout computed for a 300x300 viewport
C13_Witness ==
  /\ page = "px" /\ groundRendered
  /\ viewport = {[w |-> 300, h |-> 300]}
  /\ \E l \in rendered : Len(l) = PageItems

\* C14: an engine's result depends on the specs, the viewport, the options and the
\* random draws only.  Every step of an invocation is computed from the
\* invocation's locals and the draws of that step, so the result is a function
\* of the draws and of the state the invocation begins in; this states that the
\* beginning is fixed by the arguments alone (an empty placed, counters at their
\* start, the order sorted from the caller's list), that an invocation leaves
\* the caller's arguments and the page's state as they were, and that nothing of
\* it is left once it has returned.
C14_FunctionOfInputs ==
  /\ [][pc = "idle" /\ pc' # "idle" =>
          /\ args' \in Calls
          /\ ordered' = Sort(args'.engine, args'.specs)
          /\ placed' = <<>> /\ fellBack' = {} /\ stopped' = "no"
          /\ k' = 1 /\ tries' = 0 /\ iter' = 0]_vars
  /\ [][running => args' = args /\ UNCHANGED <<page, viewport, memo, focus, show3D, timer, effect>>]_vars
  /\ [](pc = "idle" => args = NoArgs /\ ordered = <<>> /\ placed = <<>> /\ fellBack = {}
                        /\ k = 0 /\ tries = 0 /\ iter = 0 /\ stopped = "no")

\* the pixel retry engine has returned a layout in which an item took the fallback
C14_Witness ==
  /\ returned /\ engine = "px"
  /\ Len(placed) = 2
  /\ fellBack # {}

\* a is placed no later than b in the order the relaxation engine asks for:
\* prefer-center specs first, then by non-increasing radius
PreferThenLarger(a, b) ==
  \/ a.preferCenter /\ ~b.preferCenter
  \/ a.preferCenter = b.preferCenter /\ a.radiusPx >= b.radiusPx

\* C15: in the relaxation engine the placement order has every prefer-center spec
\* before every other spec and, within each of the two groups, non-increasing
\* radii; and the sort's comparator gives that order whichever of two specs is
\* its first argument: it is negative one way exactly when it is positive the
\* other way.
C15_PreferCenterFirst ==
  ((running \/ returned) /\ engine = "relax") =>
    /\ \A m \in 1..Len(ordered), n \in 1..Len(ordered) :
         m < n => PreferThenLarger(ordered[m], ordered[n])
    /\ \A m \in 1..Len(args.specs), n \in 1..Len(args.specs) :
         LET a == args.specs[m]
             b == args.specs[n]
         IN /\ compareRelax(a, b) < 0 <=> compareRelax(b, a) > 0
            /\ a.preferCenter /\ ~b.preferCenter => compareRelax(a, b) < 0

\* the pair relaxLayout is at overlaps: its centers are closer than minDist
pairOverlaps ==
  /\ pc = "pairs" /\ engine = "relax"
  /\ ~Apart(placed[pi], placed[pj], padPx)

\* the shares of the push, per mille, the pair (pi, pj) is to take: 35% for a
\* prefer-center item next to one that is not, 65% for the other, 50% otherwise
shareOf(n, other) ==
  IF ordered[n].preferCenter /\ ~ordered[other].preferCenter THEN 350
  ELSE IF ~ordered[n].preferCenter /\ ordered[other].preferCenter THEN 650
  ELSE 500

\* the values (Math.random() - 0.5) * jitter takes
Jitters == {jitterOf(u) : u \in RandVals}

\* C16: when a pair overlaps relaxLayout pushes the two centers apart along the
\* line joining them, by overlap + 0.25 split between them: a prefer-center item
\* next to one that is not takes 35% and the other 65%, both take 50% otherwise,
\* the two shares sum to 100%, and each coordinate is off that line by one jitter
\* draw only.
C16_PushShares ==
  [][pairOverlaps =>
       LET a == placed[pi]
           b == placed[pj]
           dx == b.cx - a.cx
           dy == b.cy - a.cy
           dist == Hypot(dx, dy)
           push == a.radiusPx + b.radiusPx + padPx - dist + RDiv(Unit, 4)
           sa == shareOf(pi, pj)
           sb == shareOf(pj, pi)
       IN /\ sa + sb = 1000
          /\ placed'[pi].cx - (a.cx - pushAlong(dx, dist, push, sa)) \in Jitters
          /\ placed'[pi].cy - (a.cy - pushAlong(dy, dist, push, sa)) \in Jitters
          /\ placed'[pj].cx - (b.cx + pushAlong(dx, dist, push, sb)) \in Jitters
          /\ placed'[pj].cy - (b.cy + pushAlong(dy, dist, push, sb)) \in Jitters
          /\ moved']_vars

\* relaxLayout is at an overlapping pair of a prefer-center item and one that is not
C16_Witness ==
  /\ pairOverlaps
  /\ ordered[pi].preferCenter # ordered[pj].preferCenter

\* the global bounds are the union of the per-item bounds: they contain every
\* item's own bounds and each side of them is the side of some item's bounds
UnionOfOwnBounds(g) ==
  LET own(n) == calcBounds(ordered[n].radiusPx, ordered[n])
      N == 1..Len(ordered)
  IN /\ \A n \in N : /\ g.minX <= own(n).minX /\ own(n).maxX <= g.maxX
                     /\ g.minY <= own(n).minY /\ own(n).maxY <= g.maxY
     /\ \E n \in N : g.minX = own(n).minX
     /\ \E n \in N : g.maxX = own(n).maxX
     /\ \E n \in N : g.minY = own(n).minY
     /\ \E n \in N : g.maxY = own(n).maxY

\* relaxLayout is at the end of an iteration of a call with items
endOfIteration == pc = "clamp" /\ engine = "relax" /\ Len(ordered) > 0

\* C17 as claimed: at the end of every iteration of relaxLayout every center lies
\* within the global bounds, which are the union of the per-item bounds and so
\* contain each item's own bounds.
C17_WithinGlobalBounds ==
  [][endOfIteration =>
       /\ UnionOfOwnBounds(globalBounds)
       /\ \A n \in 1..Len(placed) : Within(placed'[n], globalBounds)]_vars

\* C17 as amended: the same on every axis on which the global bounds are not
\* empty; when the viewport is too small for every item (global min > max on an
\* axis) the clamp leaves every center at the global lower bound of that axis.
C17_ClampedIntoGlobalBounds ==
  [][endOfIteration =>
       /\ UnionOfOwnBounds(globalBounds)
       /\ \A n \in 1..Len(placed) :
            /\ ClampedInto(placed'[n].cx, globalBounds.minX, globalBounds.maxX)
            /\ ClampedInto(placed'[n].cy, globalBounds.minY, globalBounds.maxY)]_vars

\* relaxLayout is at the end of an iteration that pushed an item out of the global
\* bounds, which are not empty
C17_Witness ==
  /\ endOfIteration /\ Len(placed) = 2
  /\ NonEmpty(globalBounds)
  /\ \E n \in 1..Len(placed) : ~Within(placed[n], globalBounds)

\* moved says whether a pair of the running iteration was found overlapping: it is
\* false when the iteration begins and set by an overlapping pair only
MovedTracksOverlap ==
  /\ [](pc = "pairs" /\ pi = 1 /\ pj = 2 => ~moved)
  /\ [][pc = "pairs" => moved' = (moved \/ pairOverlaps)]_vars

\* relaxLayout stops after an iteration without movement, and after a moving one
\* only when the budget is used up
StopsOnStillness ==
  [][pc = "clamp" /\ engine = "relax" =>
       IF ~moved THEN pc' = "final" /\ stopped' = "stable" /\ iter' = iter
       ELSE /\ iter' = iter + 1
            /\ IF iter + 1 < Budget THEN pc' # "final" /\ stopped' = "no"
               ELSE pc' = "final" /\ stopped' = "budget"]_vars

\* relaxLayout has just stopped for lack of movement
stoppedStill == pc = "final" /\ engine = "relax" /\ stopped = "stable"

\* every item of the running relaxation call has bounds that are not empty
AllHaveRoom ==
  \A n \in 1..Len(ordered) : NonEmpty(calcBounds(ordered[n].radiusPx, ordered[n]))

SettledInGlobalBounds ==
  /\ AllApart(padPx)
  /\ \A n \in 1..Len(placed) : Within(placed[n], globalBounds)

\* C18 as claimed: relaxLayout stops at the end of the first iteration in which no
\* pair was found overlapping, and not before the budget while an iteration
\* pushed a pair; when it stops for lack of movement every pair is at least
\* radius(a) + radius(b) + paddingPx apart and every center is inside the global
\* bounds.
C18_StopsWhenSettled ==
  /\ MovedTracksOverlap
  /\ StopsOnStillness
  /\ [](stoppedStill => SettledInGlobalBounds)

\* C18 as amended: the same, the global bounds holding every center when every
\* item's own bounds are not empty; an item the viewport is too small for is left
\* by the clamp on the lower side of bounds that hold no point.
C18_StopsWhenSettledInRoom ==
  /\ MovedTracksOverlap
  /\ StopsOnStillness
  /\ [](stoppedStill /\ AllHaveRoom => SettledInGlobalBounds)

\* relaxLayout has stopped for lack of movement after an iteration that pushed a pair
C18_Witness ==
  /\ stoppedStill /\ AllHaveRoom
  /\ Len(placed) = 2 /\ iter > 0

\* the centers the uniform draw and the Gaussian draw give the item s, clamped
\* into its bounds b as the seeding clamps them
UniformSeeds(b) ==
  {[cx |-> ClampHi(rand(b.minX, b.maxX, u1), b.minX, b.maxX),
    cy |-> ClampHi(rand(b.minY, b.maxY, u2), b.minY, b.maxY)] :
     u1 \in RandVals, u2 \in RandVals}
GaussianSeeds(b) ==
  {[cx |-> ClampHi(RDiv(vw, 2) + Mil(Mil(b.maxX - b.minX, 200), z1), b.minX, b.maxX),
    cy |-> ClampHi(RDiv(vh, 2) + Mil(Mil(b.maxY - b.minY, 200), z2), b.minY, b.maxY)] :
     z1 \in NormVals, z2 \in NormVals}

\* the center the step has seeded the item k at
seedOf(p) == [cx |-> p.cx, cy |-> p.cy]

\* an item that is not prefer-center is seeded by the uniform draw, a prefer-center
\* item by the uniform or the Gaussian draw
SeededByItsDraw ==
  LET b == calcBounds(ordered[k].radiusPx, ordered[k])
  IN seedOf(placed'[k]) \in
       (IF ordered[k].preferCenter THEN UniformSeeds(b) \cup GaussianSeeds(b)
        ELSE UniformSeeds(b))

seeding == pc = "seed" /\ engine = "relax"

\* C19 as claimed: every item's initial center lies within the item's own bounds;
\* an item that is not prefer-center is always seeded by the uniform draw and
\* only a prefer-center item may be seeded by the Gaussian draw around
\* (vw/2, vh/2).
C19_SeededWithinBounds ==
  [][seeding =>
       /\ Len(placed') = k
       /\ Within(placed'[k], calcBounds(ordered[k].radiusPx, ordered[k]))
       /\ SeededByItsDraw]_vars

\* C19 as amended: the initial center lies within the item's own bounds on every
\* axis on which they are not empty, and at the upper bound of an axis on which
\* they are empty (Math.min(max, Math.max(min, c)) with min > max); the draws are
\* as claimed.
C19_SeededClampedIntoBounds ==
  [][seeding =>
       LET b == calcBounds(ordered[k].radiusPx, ordered[k])
           p == placed'[k]
       IN /\ Len(placed') = k
          /\ IF b.minX <= b.maxX THEN b.minX <= p.cx /\ p.cx <= b.maxX ELSE p.cx = b.maxX
          /\ IF b.minY <= b.maxY THEN b.minY <= p.cy /\ p.cy <= b.maxY ELSE p.cy = b.maxY
          /\ SeededByItsDraw]_vars

\* a prefer-center item has been seeded by the Gaussian draw, off every center the
\* uniform draw gives it, and an item that is not prefer-center is next
C19_Witness ==
  /\ seeding /\ k = 2
  /\ ordered[1].preferCenter /\ ~ordered[2].preferCenter
  /\ LET b == calcBounds(ordered[1].radiusPx, ordered[1])
     IN NonEmpty(b) /\ seedOf(placed[1]) \in GaussianSeeds(b) \ UniformSeeds(b)

\* the radius of a spec of a retry engine
specRadius(s) == IF engine = "pct" THEN s.radius ELSE s.radiusPx

\* C20: both retry engines process the items in non-increasing radius order,
\* whatever the order of the input list, and return them in that order: the
\* order is a rearrangement of the input, and the n-th placed item is the n-th
\* of the order.
C20_LargestFirst ==
  ((running \/ returned) /\ retryEngine) =>
    /\ \A m \in 1..Len(ordered), n \in 1..Len(ordered) :
         m < n => specRadius(ordered[m]) >= specRadius(ordered[n])
    /\ Len(ordered) = Len(args.specs)
    /\ \A n \in 1..Len(args.specs) : \E m \in 1..Len(ordered) : ordered[m] = args.specs[n]
    /\ Len(placed) <= Len(ordered)
    /\ \A n \in 1..Len(placed) :
         placed[n].id = ordered[n].id /\ Rad(placed[n]) = specRadius(ordered[n])

\* the percent engine has returned the larger item first for a list that gave the
\* smaller one first
C20_Witness ==
  /\ returned /\ engine = "pct"
  /\ Len(args.specs) = 2 /\ Len(placed) = 2
  /\ args.specs[1].radius < args.specs[2].radius
  /\ placed[1].id = args.specs[2].id /\ placed[2].id = args.specs[1].id

\* C21: in both retry engines an item accepted by sampling is at least the sum of
\* radii plus padding from every item placed before it, fallback items included:
\* in a pair closer than that the later-placed item took the fallback, and the
\* first item never takes the fallback.
C21_AcceptedClearsEarlier ==
  ((running \/ returned) /\ retryEngine) =>
    /\ \A m \in 1..Len(placed), n \in 1..Len(placed) :
         (m < n /\ ~Apart(placed[m], placed[n], askedPadding)) => placed[n].id \in fellBack
    /\ Len(placed) >= 1 => placed[1].id \notin fellBack

\* the percent engine has returned three items: the second took the fallback and
\* the third was accepted by sampling after it
C21_Witness ==
  /\ returned /\ engine = "pct"
  /\ Len(placed) = 3
  /\ placed[2].id \in fellBack /\ placed[3].id \notin fellBack

\* the spec of the call that the placed item p was made from
specOf(p) == CHOOSE s \in {args.specs[n] : n \in 1..Len(args.specs)} : s.id = p.id

\* C22: in every engine the rotation of a returned item lies within the rotation
\* range of its spec, and the rotation of an item that took the retry fallback
\* is 0.
C22_RotationInRange ==
  returned =>
    \A n \in 1..Len(placed) :
      IF placed[n].id \in fellBack THEN placed[n].rot = 0
      ELSE /\ specOf(placed[n]).rotRange[1] <= placed[n].rot
           /\ placed[n].rot <= specOf(placed[n]).rotRange[2]

\* the relaxation engine has returned an item with a rotation other than 0
C22_Witness ==
  /\ returned /\ engine = "relax"
  /\ \E n \in 1..Len(placed) : placed[n].rot # 0

pixelEngine == engine \in {"px", "relax"}

\* C23: in the pixel engines every placed item carries the radius of its spec
\* unchanged, and a display width that is the spec's fixed width when there is
\* one and twice the radius otherwise, whether it was sampled, moved by the
\* relaxation or put by the fallback.
C23_RadiusAndWidthKept ==
  ((running \/ returned) /\ pixelEngine) =>
    \A n \in 1..Len(placed) :
      LET s == specOf(placed[n])
      IN /\ placed[n].radiusPx = s.radiusPx
         /\ placed[n].widthPx =
              (IF s.fixedWidthPx = {} THEN 2 * s.radiusPx
               ELSE CHOOSE w \in s.fixedWidthPx : TRUE)

\* the relaxation engine has returned an item whose fixed width is not twice its radius
C23_Witness ==
  /\ returned /\ engine = "relax"
  /\ \E n \in 1..Len(placed) :
       /\ specOf(placed[n]).fixedWidthPx # {}
       /\ placed[n].widthPx # 2 * placed[n].radiusPx

\* the item q is the item p but for its center
SameButCenter(p, q) == q = [p EXCEPT !.cx = q.cx, !.cy = q.cy]

\* relaxLayout or the final clamp is at work
relaxing == engine = "relax" /\ pc \in {"pairs", "clamp", "final"}

\* C24: relaxLayout and the final clamp change the cx and cy of placed items only:
\* no item is added, removed or moved to another index, and no id, rot, radiusPx
\* or widthPx changes; so placed[i] and ordered[i] have the same id throughout,
\* and the final clamp clamps each item into the bounds of its own spec.
C24_OnlyCentersMove ==
  /\ [][relaxing =>
          /\ Len(placed') = Len(placed)
          /\ \A n \in 1..Len(placed) : SameButCenter(placed[n], placed'[n])]_vars
  /\ [](relaxing \/ (returned /\ engine = "relax") =>
          /\ Len(placed) = Len(ordered)
          /\ \A n \in 1..Len(placed) : placed[n].id = ordered[n].id)
  /\ [][engine = "relax" /\ pc = "final" =>
          \A n \in 1..Len(placed) :
            LET s == specOf(placed[n])
                b == calcBounds(s.radiusPx, s)
            IN /\ placed'[n].cx = ClampLo(placed[n].cx, b.minX, b.maxX)
               /\ placed'[n].cy = ClampLo(placed[n].cy, b.minY, b.maxY)]_vars

\* relaxLayout has run more than one iteration on two items the sort had exchanged,
\* and the final clamp is next
C24_Witness ==
  /\ engine = "relax" /\ pc = "final"
  /\ Len(placed) = 2 /\ iter > 0
  /\ args.specs[1].id = ordered[2].id

\* the padding the relaxation engine is to test with: the greater of the padding
\* asked for and 48 px where the shorter edge is under 700 px, 40 px elsewhere
floorPadding ==
  LET short == IF vw <= vh THEN vw ELSE vh
      floor == IF short < Px(SmallEdge) THEN Px(48) ELSE Px(40)
  IN IF requestedPad >= floor THEN requestedPad ELSE floor

\* C25: the relaxation engine tests separation with max(requested padding, 40) on
\* a viewport that is not small and max(requested padding, 48) on a small one: a
\* pair closer than that is pushed, a pair the test leaves alone is apart by it,
\* hence by the sum of its radii plus the padding the caller asked for.
C25_PaddingFloor ==
  /\ [](engine = "relax" => padPx = floorPadding /\ padPx >= requestedPad)
  /\ [][(engine = "relax" /\ pc = "pairs") =>
          IF Apart(placed[pi], placed[pj], floorPadding)
          THEN /\ placed' = placed
               /\ moved' = moved
               /\ Apart(placed[pi], placed[pj], requestedPad)
          ELSE moved']_vars

\* relaxLayout is at a pair on a small viewport that is apart by the floor, which
\* is more than the caller asked for
C25_Witness ==
  /\ engine = "relax" /\ pc = "pairs"
  /\ vw < Px(SmallEdge) /\ requestedPad < floorPadding
  /\ Apart(placed[pi], placed[pj], floorPadding)

\* clamp(shortEdge / 1200, 0.7, 1.2), per mille
clampedScale(w, h) ==
  LET raw == RDiv((IF w <= h THEN w ELSE h) * 1000, 1200)
  IN IF raw < 700 THEN 700 ELSE IF raw > 1200 THEN 1200 ELSE raw

\* the page of the relaxation revision has called the engine for a viewport whose
\* shorter edge is under 700 px
smallPage ==
  /\ page = "relax" /\ pc # "idle"
  /\ \E v \in viewport : v.w < SmallEdge \/ v.h < SmallEdge

\* C26: on the page of the relaxation revision, a viewport with a shorter edge
\* under 700 px has every item sized at 50% of clamp(shortEdge / 1200, 0.7, 1.2),
\* and every item width is at least 40 px.
C26_SmallHalvesScale ==
  smallPage =>
    \A v \in viewport :
      /\ args.specs = Leading(specsRelaxAt(RDiv(clampedScale(v.w, v.h), 2)))
      /\ \A n \in 1..Len(args.specs) :
           \A width \in args.specs[n].fixedWidthPx : width >= Px(40)

\* C27: in the revisions with the 3D viewer show3D turns true by the callback of
\* the timer the effect started for a trash focus, and by nothing else; once the
\* effect has run for a focus that is no trash item no timer is left and show3D
\* is false, so a timer whose focus has left never sets show3D, and show3D is
\* true for a trash focus only.
C27_Show3DFollowsTimer ==
  /\ [][(show3D' /\ ~show3D) =>
          /\ timer = "armed" /\ timer' = "none"
          /\ focus.type = "trash" /\ focus' = focus]_vars
  /\ [](effect = "done" /\ focus.type # "trash" => timer = "none" /\ ~show3D)

\* the timer of a trash focus has fired and the 3D viewer is shown for it
C27_Witness ==
  /\ page = "pct" /\ effect = "done"
  /\ focus.type = "trash" /\ show3D /\ timer = "none"

\* the values focus takes on the page p: none, the flier, the phone, or a trash
\* item with the id and the url of one rendered trash image
focusValues(p) ==
  {NoFocus, FlierFocus, PhoneFocus} \cup
    {TrashFocus(trashImgs(p)[n]) : n \in 1..Len(trashImgs(p))}

\* C28: on the page of the relaxation revision, whatever the clicks and resizes,
\* focus is none, the flier, the phone, or one trash item with the id and url of
\* one rendered trash image; at most one focus dialog is rendered; a click on a
\* close control (backdrop, close button, trash click catcher, focused trash
\* image) sets focus to none, any other change of focus being the click on a
\* ground item; a resize and the layout that follows leave focus as it is.
C28_FocusIsOneItem ==
  /\ [](page = "relax" =>
          /\ focus \in focusValues("relax")
          /\ Cardinality(dialogs) <= 1
          /\ (focus = NoFocus <=> closeControls = {}))
  /\ [][(page = "relax" /\ focus' # focus) =>
          /\ groundShown
          /\ \/ focus' \in groundClicks("relax")
             \/ focus' = NoFocus /\ closeControls # {}]_vars
  /\ [][(page = "relax" /\ (viewport' # viewport \/ pc' # pc)) => focus' = focus]_vars

\* the page of the relaxation revision is laying out anew after a resize, a trash
\* item being in focus
C28_Witness ==
  /\ page = "relax" /\ pc = "pairs"
  /\ focus.type = "trash"

coincident ==
  /\ pairOverlaps
  /\ placed[pi].cx = placed[pj].cx
  /\ placed[pi].cy = placed[pj].cy

\* C30: when the two items of an overlapping pair have the same center, the push
\* has no direction and displaces neither: each coordinate of each of the two
\* changes by its jitter draw alone, at most 0.125 px, and the pair counts as moved.
C30_CoincidentOnlyJitter ==
  [][coincident =>
       /\ moved'
       /\ \A n \in {pi, pj} :
            /\ placed'[n].cx - placed[n].cx \in Jitters
            /\ placed'[n].cy - placed[n].cy \in Jitters
       /\ \A j \in Jitters : 8 * j <= Unit /\ 8 * j >= 0 - Unit]_vars

\* relaxLayout is at a pair of coincident centers in its second iteration
C30_Witness == coincident /\ iter = 1

====
